---- MODULE Spec2Model ----
(***************************************************************************)
(* Model of the Airbnb star-schema ETL (src/main.py and the four classes   *)
(* it drives).  Data frames are sequences of records (one record per row,  *)
(* one field per column); a nullable cell is <<v>> (a value) or <<>> (NaN).*)
(* Prices are in cents, coordinates in tenths of a degree.                 *)
(***************************************************************************)
EXTENDS Integers, Sequences, FiniteSets, TLC

VARIABLES
    calendar_df,          \* the frames main holds (transform mutates them in place)
    listings_df,
    listings_details_df,
    neighbourhoods_df,
    files,                \* the CSV sources as read by the extractor (never written)
    dim_listing,          \* the four tables transform returned
    dim_location,
    dim_date,
    fact_daily_revenue,
    fact_merged,          \* transform's fact frame before it drops the raw columns
    warnings,             \* what transform logged / recorded besides its return value
    pc,                   \* position of the driver (main, or the caller of one operation)
    error,                \* the exception that ended the run, "" if none
    trace,                \* the operations main has started, in order
    db,                   \* destination database: table name -> "absent" or its rows
    call                  \* the Loader call in progress

vars == <<calendar_df, listings_df, listings_details_df, neighbourhoods_df, files,
          dim_listing, dim_location, dim_date, fact_daily_revenue, fact_merged,
          warnings,
          pc, error, trace, db, call>>

frames == <<calendar_df, listings_df, listings_details_df, neighbourhoods_df>>
tables == <<dim_listing, dim_location, dim_date, fact_daily_revenue, fact_merged>>

-----------------------------------------------------------------------------
(* Bounds and input domains *)

MaxCalendarRows == 2
MaxListingRows == 2
MaxDetailRows == 2
MaxNeighbourhoodRows == 2

ListingIds == {"A123", "B456"}
\* a calendar may name a listing the listings source does not have
CalendarListingIds == ListingIds \cup {"Z999"}
RawDates == {"2021-01-02", "2021-01-01", "2020-12-31", "not a date"}
RawNeighbourhoods == {" SoHo ", "Harlem"}
MappingNeighbourhoods == {"SoHo", "soho "}
Coordinates == {<<407, -740>>, <<408, -739>>}

SeqsUpTo(S, n) == UNION {[1..k -> S] : k \in 0..n}

Range(S) == {S[i] : i \in DOMAIN S}

Some(v) == <<v>>
None == <<>>

-----------------------------------------------------------------------------
(* pandas operations used by the transform *)

RECURSIVE Concat(_)
Concat(ss) == IF ss = <<>> THEN <<>> ELSE Head(ss) \o Concat(Tail(ss))

\* DataFrame.merge(how='left'): every left row in order, once per matching
\* right row (in right order), or once with the right columns null.
LeftMerge(L, R, Match(_, _), Join(_, _), Miss(_)) ==
    Concat([i \in 1..Len(L) |->
        LET ms == SelectSeq(R, LAMBDA r : Match(L[i], r))
        IN  IF ms = <<>> THEN <<Miss(L[i])>>
            ELSE [j \in 1..Len(ms) |-> Join(L[i], ms[j])]])

\* the rows of S at the indices I, in order
RowsAt(S, I) ==
    LET F[i \in 0..Len(S)] ==
            IF i = 0 THEN <<>>
            ELSE IF i \in I THEN Append(F[i - 1], S[i]) ELSE F[i - 1]
    IN  F[Len(S)]

\* DataFrame.drop_duplicates(subset=...): keep='first'
DropDuplicates(S, Key(_)) ==
    RowsAt(S, {i \in 1..Len(S) : \A j \in 1..(i - 1) : Key(S[j]) # Key(S[i])})

\* DataFrame.sort_values: ascending by an integer key (rows with equal keys keep
\* their order)
SortValues(S, Key(_)) ==
    LET Rank(i) == Cardinality({j \in 1..Len(S) : Key(S[j]) < Key(S[i])})
                   + Cardinality({j \in 1..(i - 1) : Key(S[j]) = Key(S[i])}) + 1
    IN  [p \in 1..Len(S) |-> S[CHOOSE i \in 1..Len(S) : Rank(i) = p]]

\* reset_index(drop=True) followed by df[col] = df.index + 1
WithIndexPlusOne(S, Put(_, _)) == [i \in 1..Len(S) |-> Put(S[i], i)]

-----------------------------------------------------------------------------
(* Step 1: cleaning of the calendar (data_transformer.py:44-50) *)

\* pd.to_datetime on one cell: the timestamp, or a ValueError
IsDate(s) == s \in {"2021-01-02", "2021-01-01", "2020-12-31"}
ToDatetime(s) ==
    CASE s = "2021-01-02" -> [year |-> 2021, month |-> 1, day |-> 2]
      [] s = "2021-01-01" -> [year |-> 2021, month |-> 1, day |-> 1]
      [] s = "2020-12-31" -> [year |-> 2020, month |-> 12, day |-> 31]

\* the order of timestamps
DateOrd(d) == d.year * 10000 + d.month * 100 + d.day

\* Series.dt.isocalendar().week
IsoWeek(d) ==
    CASE d = [year |-> 2021, month |-> 1, day |-> 2] -> 53
      [] d = [year |-> 2021, month |-> 1, day |-> 1] -> 53
      [] d = [year |-> 2020, month |-> 12, day |-> 31] -> 53

\* lambda x: 0 if x == 't' else 1
OccupiedFlag(x) == IF x = "t" THEN 0 ELSE 1

\* .replace(r"[\$,]", '', regex=True)
StripCurrency(s) ==
    CASE s = "$100.00" -> "100.00"
      [] s = "$120.50" -> "120.50"
      [] s = "$1,120.50" -> "1120.50"
      [] OTHER -> s

\* .astype(float) on one cell, in cents: a number, or a ValueError
IsFloat(s) == s \in {"100.00", "120.50", "1120.50"}
AsFloat(s) ==
    CASE s = "100.00" -> 10000
      [] s = "120.50" -> 12050
      [] s = "1120.50" -> 112050

DatesParse(cal) == \A i \in 1..Len(cal) : IsDate(cal[i].date)
PricesParse(cal) == \A i \in 1..Len(cal) : IsFloat(StripCurrency(cal[i].price))

\* calendar_df after lines 46 and 48
CalendarDated(cal) ==
    [i \in 1..Len(cal) |->
        [listing_id |-> cal[i].listing_id, date |-> ToDatetime(cal[i].date),
         available |-> cal[i].available, price |-> cal[i].price,
         occupied_flag |-> OccupiedFlag(cal[i].available)]]

\* calendar_df after line 50
CalendarCleaned(cal) ==
    LET c == CalendarDated(cal)
    IN  [i \in 1..Len(c) |-> [c[i] EXCEPT !.price = AsFloat(StripCurrency(c[i].price))]]

(* Step 2: rename and merge of the listings (data_transformer.py:52-63) *)

\* rename(columns={'id': 'listing_id'}, inplace=True)
RenameListings(lst) ==
    [i \in 1..Len(lst) |->
        [listing_id |-> lst[i].id, name |-> lst[i].name, host_name |-> lst[i].host_name,
         price |-> lst[i].price, latitude |-> lst[i].latitude,
         longitude |-> lst[i].longitude,
         neighbourhood_cleansed |-> lst[i].neighbourhood_cleansed, city |-> lst[i].city]]

RenameDetails(det) ==
    [i \in 1..Len(det) |->
        [listing_id |-> det[i].id, property_type |-> det[i].property_type,
         room_type |-> det[i].room_type, description |-> det[i].description]]

\* merged_listings; lst and det are the renamed frames
MergedListings(lst, det) ==
    LeftMerge(lst, det,
        LAMBDA l, d : l.listing_id = d.listing_id,
        LAMBDA l, d : l @@ [property_type |-> Some(d.property_type),
                            room_type |-> Some(d.room_type),
                            description |-> Some(d.description)],
        LAMBDA l : l @@ [property_type |-> None, room_type |-> None,
                         description |-> None])

(* Step 3: DIM_LISTING (data_transformer.py:65-82) *)

\* DimListing without the drop_duplicates(subset=['listing_id']) of line 73
DimListingKeepingDuplicates(merged) ==
    LET sel == [i \in 1..Len(merged) |->
                   [listing_id |-> merged[i].listing_id, listing_name |-> merged[i].name,
                    property_type |-> merged[i].property_type,
                    room_type |-> merged[i].room_type, host |-> merged[i].host_name,
                    description |-> merged[i].description]]
        uniq == DropDuplicates(sel, LAMBDA r : r)
    IN  WithIndexPlusOne(uniq, LAMBDA r, i :
            [listing_id_surrogate |-> i, ListingID_BK |-> r.listing_id,
             listing_name |-> r.listing_name, property_type |-> r.property_type,
             room_type |-> r.room_type, host |-> r.host, description |-> r.description])

DimListing(merged) ==
    LET sel == [i \in 1..Len(merged) |->
                   [listing_id |-> merged[i].listing_id, listing_name |-> merged[i].name,
                    property_type |-> merged[i].property_type,
                    room_type |-> merged[i].room_type, host |-> merged[i].host_name,
                    description |-> merged[i].description]]
        uniq == DropDuplicates(DropDuplicates(sel, LAMBDA r : r),
                               LAMBDA r : r.listing_id)
    IN  WithIndexPlusOne(uniq, LAMBDA r, i :
            [listing_id_surrogate |-> i, ListingID_BK |-> r.listing_id,
             listing_name |-> r.listing_name, property_type |-> r.property_type,
             room_type |-> r.room_type, host |-> r.host, description |-> r.description])

(* Step 4: DIM_LOCATION and the listing -> location mapping
   (data_transformer.py:84-122) *)

\* Series.str.strip().str.lower()
StrStripLower(s) ==
    CASE s = " SoHo " -> "soho"
      [] s = "SoHo" -> "soho"
      [] s = "soho " -> "soho"
      [] s = "soho" -> "soho"
      [] s = "Harlem" -> "harlem"
      [] OTHER -> s

TempLocation(merged) ==
    [i \in 1..Len(merged) |->
        [listing_id |-> merged[i].listing_id,
         neighborhood |-> StrStripLower(merged[i].neighbourhood_cleansed),
         city |-> merged[i].city, latitude |-> merged[i].latitude,
         longitude |-> merged[i].longitude]]

\* the subset of drop_duplicates at line 95, and the merge key of line 120
LocationKey(r) == <<r.neighborhood, r.city, r.latitude, r.longitude>>

\* neighbourhoods_df after lines 99-100
NormaliseNeighbourhoods(nb) ==
    [i \in 1..Len(nb) |->
        [neighbourhood |-> nb[i].neighbourhood,
         neighbourhood_group |-> nb[i].neighbourhood_group,
         neighborhood |-> StrStripLower(nb[i].neighbourhood)]]

\* nb is the normalised mapping
DimLocation(temp, nb) ==
    LET uniq == DropDuplicates(temp, LocationKey)
        withBorough == LeftMerge(uniq, nb,
            LAMBDA l, n : l.neighborhood = n.neighborhood,
            LAMBDA l, n : l @@ [borough |-> Some(n.neighbourhood_group)],
            LAMBDA l : l @@ [borough |-> None])
    IN  WithIndexPlusOne(withBorough, LAMBDA r, i :
            [location_id |-> i, neighborhood |-> r.neighborhood, city |-> r.city,
             latitude |-> r.latitude, longitude |-> r.longitude, borough |-> r.borough])

\* ListingLocationMapping joined on the neighbourhood alone, not on the coordinates
ListingLocationMappingByNeighbourhood(temp, dimLocation) ==
    DropDuplicates(
        LeftMerge(temp, dimLocation,
            LAMBDA t, d : t.neighborhood = d.neighborhood,
            LAMBDA t, d : [listing_id |-> t.listing_id, location_id |-> Some(d.location_id)],
            LAMBDA t : [listing_id |-> t.listing_id, location_id |-> None]),
        LAMBDA r : r.listing_id)

ListingLocationMapping(temp, dimLocation) ==
    DropDuplicates(
        LeftMerge(temp, dimLocation,
            LAMBDA t, d : LocationKey(t) = LocationKey(d),
            LAMBDA t, d : [listing_id |-> t.listing_id, location_id |-> Some(d.location_id)],
            LAMBDA t : [listing_id |-> t.listing_id, location_id |-> None]),
        LAMBDA r : r.listing_id)

(* Step 5: DIM_DATE (data_transformer.py:124-154) *)

GetSeason(month) ==
    IF month \in {12, 1, 2} THEN "Winter"
    ELSE IF month \in {3, 4, 5} THEN "Spring"
    ELSE IF month \in {6, 7, 8} THEN "Summer"
    ELSE "Fall"

\* calendar_df after lines 126-144; cal is the cleaned calendar
CalendarWithDateParts(cal) ==
    [i \in 1..Len(cal) |->
        cal[i] @@ [day |-> cal[i].date.day, month |-> cal[i].date.month,
                   year |-> cal[i].date.year,
                   quarter |-> ((cal[i].date.month - 1) \div 3) + 1,
                   week |-> IsoWeek(cal[i].date),
                   season |-> GetSeason(cal[i].date.month)]]

\* DimDate without the sort_values of line 150: keys in first-seen order
DimDateFirstSeen(cal) ==
    LET sel == [i \in 1..Len(cal) |->
                   [full_date |-> cal[i].date, day |-> cal[i].day, month |-> cal[i].month,
                    quarter |-> cal[i].quarter, year |-> cal[i].year,
                    week |-> cal[i].week, season |-> cal[i].season]]
    IN  WithIndexPlusOne(DropDuplicates(sel, LAMBDA r : r),
                         LAMBDA r, i : [date_id |-> i] @@ r)

\* cal is the calendar with its date parts
DimDate(cal) ==
    LET sel == [i \in 1..Len(cal) |->
                   [full_date |-> cal[i].date, day |-> cal[i].day, month |-> cal[i].month,
                    quarter |-> cal[i].quarter, year |-> cal[i].year,
                    week |-> cal[i].week, season |-> cal[i].season]]
        sorted == SortValues(DropDuplicates(sel, LAMBDA r : r),
                             LAMBDA r : DateOrd(r.full_date))
    IN  WithIndexPlusOne(sorted, LAMBDA r, i : [date_id |-> i] @@ r)

(* Step 6: FACT_DAILY_REVENUE (data_transformer.py:156-205) *)

\* The fact frame after its four left merges, before the raw columns are dropped:
\* orig_listing_id and date are still there.  The merge of line 164 finds no
\* column clash (the calendar price was renamed daily_price at line 162), so the
\* listing's price arrives as 'price' and the rename of line 170 matches nothing.
FactMerged(cal, lst, dimListing, mapping, dimDate) ==
    LET base == [i \in 1..Len(cal) |->
                    [listing_id |-> cal[i].listing_id, date |-> cal[i].date,
                     daily_price |-> cal[i].price,
                     occupied_flag |-> cal[i].occupied_flag,
                     orig_listing_id |-> cal[i].listing_id]]
        priced == LeftMerge(base, lst,
            LAMBDA f, l : f.listing_id = l.listing_id,
            LAMBDA f, l : f @@ [price |-> Some(l.price)],
            LAMBDA f : f @@ [price |-> None])
        keyed == LeftMerge(priced, dimListing,
            LAMBDA f, d : f.listing_id = d.ListingID_BK,
            LAMBDA f, d : [f EXCEPT !.listing_id = Some(d.listing_id_surrogate)],
            LAMBDA f : [f EXCEPT !.listing_id = None])
        located == LeftMerge(keyed, mapping,
            LAMBDA f, m : f.orig_listing_id = m.listing_id,
            LAMBDA f, m : f @@ [location_id |-> m.location_id],
            LAMBDA f : f @@ [location_id |-> None])
    IN  LeftMerge(located, dimDate,
            LAMBDA f, d : f.date = d.full_date,
            LAMBDA f, d : f @@ [date_id |-> Some(d.date_id)],
            LAMBDA f : f @@ [date_id |-> None])

\* the returned fact table: lines 179, 191-193 and 203 dropped the raw columns
FactDailyRevenue(merged) ==
    [i \in 1..Len(merged) |->
        [daily_price |-> merged[i].daily_price,
         occupied_flag |-> merged[i].occupied_flag, price |-> merged[i].price,
         listing_id |-> merged[i].listing_id, location_id |-> merged[i].location_id,
         date_id |-> merged[i].date_id]]

\* Everything transform computes from the frames it is handed (raw, as extracted)
TransformResult(cal, lst, det, nb) ==
    LET cal1 == CalendarCleaned(cal)
        lst1 == RenameListings(lst)
        det1 == RenameDetails(det)
        merged == MergedListings(lst1, det1)
        dl == DimListing(merged)
        temp == TempLocation(merged)
        nb1 == NormaliseNeighbourhoods(nb)
        dloc == DimLocation(temp, nb1)
        mapping == ListingLocationMapping(temp, dloc)
        cal2 == CalendarWithDateParts(cal1)
        dd == DimDate(cal2)
        fm == FactMerged(cal2, lst1, dl, mapping, dd)
    IN  [calendar_df |-> cal2, listings_df |-> lst1, listings_details_df |-> det1,
         neighbourhoods_df |-> nb1, dim_listing |-> dl, dim_location |-> dloc,
         dim_date |-> dd, fact_merged |-> fm, fact_daily_revenue |-> FactDailyRevenue(fm)]

-----------------------------------------------------------------------------
(* The call of DataTransformer.transform (main.py:35-37) *)

\* transform rebinds or mutates the caller's frames in place (lines 46-50, 54-55,
\* 99-100, 126-144); an exception leaves them as far as the statements got.
Transform ==
    /\ pc = "transform"
    /\ trace' = Append(trace, "transform")
    /\ IF ~DatesParse(calendar_df)
       THEN \* line 46 raises: nothing was assigned
            /\ pc' = "failed"
            /\ error' = "ValueError: date"
            /\ UNCHANGED <<frames, tables>>
       ELSE IF ~PricesParse(calendar_df)
       THEN \* line 50 raises: 'date' and 'occupied_flag' are already written
            /\ pc' = "failed"
            /\ error' = "ValueError: price"
            /\ calendar_df' = CalendarDated(calendar_df)
            /\ UNCHANGED <<listings_df, listings_details_df, neighbourhoods_df, tables>>
       ELSE LET r == TransformResult(calendar_df, listings_df, listings_details_df,
                                     neighbourhoods_df)
            IN  /\ pc' = "check"
                /\ error' = ""
                /\ calendar_df' = r.calendar_df
                /\ listings_df' = r.listings_df
                /\ listings_details_df' = r.listings_details_df
                /\ neighbourhoods_df' = r.neighbourhoods_df
                /\ dim_listing' = r.dim_listing
                /\ dim_location' = r.dim_location
                /\ dim_date' = r.dim_date
                /\ fact_merged' = r.fact_merged
                /\ fact_daily_revenue' = r.fact_daily_revenue
    \* transform has no logging call and no warning list
    /\ UNCHANGED <<warnings, files, db, call>>

-----------------------------------------------------------------------------
(* Sources *)

CalendarRow(id, d, a, p) == [listing_id |-> id, date |-> d, available |-> a, price |-> p]

ListingRow(id, nm, c, n) ==
    [id |-> id, name |-> nm, host_name |-> "Ann", price |-> "$110",
     latitude |-> c[1], longitude |-> c[2], neighbourhood_cleansed |-> n,
     city |-> "New York"]

DetailRow(id, d) ==
    [id |-> id, property_type |-> "Apartment", room_type |-> "Entire home/apt",
     description |-> d]

NeighbourhoodRow(n, g) == [neighbourhood |-> n, neighbourhood_group |-> g]

\* the state once the extractor's frames are bound and transform is about to run
AtTransform(cal, lst, det, nb) ==
    /\ files = [calendar |-> cal, listings |-> lst, listings_details |-> det,
                neighbourhoods |-> nb]
    /\ calendar_df = cal
    /\ listings_df = lst
    /\ listings_details_df = det
    /\ neighbourhoods_df = nb
    /\ dim_listing = <<>>
    /\ dim_location = <<>>
    /\ dim_date = <<>>
    /\ fact_daily_revenue = <<>>
    /\ fact_merged = <<>>
    /\ warnings = <<>>
    /\ pc = "transform"
    /\ error = ""
    /\ trace = <<>>

\* no database is involved in a call of transform alone
NoDatabase == db = <<>> /\ call = <<>>

\* transform on any calendar (well-formed dates and prices) and any listings
InitFact ==
    \E cal \in SeqsUpTo({CalendarRow(id, d, "t", "$100.00") :
                             id \in CalendarListingIds, d \in RawDates \ {"not a date"}},
                        MaxCalendarRows),
       lst \in SeqsUpTo({ListingRow(id, "Loft", c, " SoHo ") :
                             id \in ListingIds, c \in Coordinates}, MaxListingRows) :
        AtTransform(cal, lst, <<DetailRow("A123", "sunny")>>,
                    <<NeighbourhoodRow("SoHo", "Manhattan")>>) /\ NoDatabase

SpecFact == InitFact /\ [][Transform]_vars

\* transform on any listings and listing details
InitListing ==
    \E lst \in SeqsUpTo({ListingRow(id, nm, <<407, -740>>, " SoHo ") :
                             id \in ListingIds, nm \in {"Loft", "Flat"}}, MaxListingRows),
       det \in SeqsUpTo({DetailRow("A123", "sunny"), DetailRow("A123", "quiet"),
                         DetailRow("B456", "sunny")}, MaxDetailRows) :
        AtTransform(<<CalendarRow("A123", "2021-01-01", "t", "$100.00")>>, lst, det,
                    <<NeighbourhoodRow("SoHo", "Manhattan")>>) /\ NoDatabase

SpecListing == InitListing /\ [][Transform]_vars

\* transform on any listings and neighbourhood mapping, for one calendar row
InitLocation ==
    \E id \in CalendarListingIds,
       lst \in SeqsUpTo({ListingRow(i, "Loft", c, n) : i \in ListingIds,
                             c \in Coordinates, n \in RawNeighbourhoods}, MaxListingRows),
       det \in {<<>>, <<DetailRow("A123", "sunny"), DetailRow("A123", "quiet")>>},
       nb \in SeqsUpTo({NeighbourhoodRow(n, "Manhattan") : n \in MappingNeighbourhoods},
                       MaxNeighbourhoodRows) :
        AtTransform(<<CalendarRow(id, "2021-01-01", "t", "$100.00")>>, lst, det, nb)
        /\ NoDatabase

SpecLocation == InitLocation /\ [][Transform]_vars

-----------------------------------------------------------------------------
(* DataLoader (data_loader.py).  A destination table is absent or holds rows;
   one DataFrame.to_sql call or one COPY is one step, and may raise. *)

MaxDfRows == 3
MaxChunkSize == 3

Absent == [exists |-> FALSE, rows |-> <<>>]
Holding(rows) == [exists |-> TRUE, rows |-> rows]

\* df.to_sql(table_name, engine, if_exists='replace', index=False)
ToSqlReplace(tbl, rows) == Holding(rows)

\* df.to_sql(table_name, engine, if_exists='append', index=False)
ToSqlAppend(tbl, rows) == Holding(tbl.rows \o rows)

\* What a to_sql that raises leaves behind.  An append inserts in one
\* transaction, so nothing; a replace leaves the old table (its drop was in the
\* failed transaction) or, where the drop and create are committed before the
\* insert, a new empty table: the pandas version decides.
AfterFailedReplace(tbl) == {tbl, Holding(<<>>)}

\* math.ceil(total_rows / chunk_size)
TotalChunks(total_rows, chunk_size) == (total_rows + chunk_size - 1) \div chunk_size

Min(a, b) == IF a < b THEN a ELSE b

\* df.iloc[start_index:end_index], start_index counted from 0
Iloc(df, start_index, end_index) ==
    SubSeq(df, start_index + 1, Min(end_index, Len(df)))

\* the table after the to_sql call that _load_in_chunks makes at start_index
\* (lines 40, 50 and 53)
ChunkWrite(tbl, df, chunk_size, start_index) ==
    IF TotalChunks(Len(df), chunk_size) = 1 THEN ToSqlReplace(tbl, df)
    ELSE IF start_index = 0
         THEN ToSqlReplace(tbl, Iloc(df, start_index, start_index + chunk_size))
         ELSE ToSqlAppend(tbl, Iloc(df, start_index, start_index + chunk_size))

\* start_index after that call; the single-chunk branch returns at once
NextStartIndex(df, chunk_size, start_index) ==
    IF TotalChunks(Len(df), chunk_size) = 1 THEN Len(df) ELSE start_index + chunk_size

\* _load_in_chunks has nothing (more) to write: total_chunks is 0 or the loop
\* condition start_index < total_rows is false
ChunksDone(df, start_index) == start_index >= Len(df)

NoCall == [op |-> "none", outcome |-> "none", table_name |-> "", df |-> <<>>,
           chunk_size |-> 0, start_index |-> 0, copy_failed |-> FALSE,
           before |-> <<>>, loaded |-> {}]

\* load_dimension / load_fact: the call starts; with no row to write it has
\* already returned (total_chunks = 0, the loop body never runs)
LoadDimension ==
    /\ pc = "loader"
    /\ call.outcome \in {"none", "returned"}
    /\ \E table_name \in DOMAIN db, n \in 0..MaxDfRows, chunk_size \in 1..MaxChunkSize :
        LET df == [i \in 1..n |-> [src |-> "df", n |-> i]]
        IN  /\ table_name \notin Range(trace)
            /\ call' = [op |-> "load_in_chunks",
                        outcome |-> IF ChunksDone(df, 0) THEN "returned" ELSE "running",
                        table_name |-> table_name, df |-> df, chunk_size |-> chunk_size,
                        start_index |-> 0, copy_failed |-> FALSE, before |-> db,
                        loaded |-> call.loaded \cup {<<table_name, df>>}]
            /\ trace' = Append(trace, table_name)
    /\ UNCHANGED <<frames, files, tables, warnings, pc, error, db>>

\* one to_sql of _load_in_chunks succeeds
ToSql ==
    /\ pc = "loader"
    /\ call.op = "load_in_chunks"
    /\ call.outcome = "running"
    /\ db' = [db EXCEPT ![call.table_name] =
                  ChunkWrite(@, call.df, call.chunk_size, call.start_index)]
    /\ LET next == NextStartIndex(call.df, call.chunk_size, call.start_index)
       IN  call' = [call EXCEPT !.start_index = next,
                                !.outcome = IF ChunksDone(call.df, next)
                                            THEN "returned" ELSE "running"]
    /\ UNCHANGED <<frames, files, tables, warnings, pc, error, trace>>

\* one to_sql of _load_in_chunks raises; nothing catches it
ToSqlRaises ==
    /\ pc = "loader"
    /\ call.op = "load_in_chunks"
    /\ call.outcome = "running"
    /\ \E after \in (IF call.start_index = 0 THEN AfterFailedReplace(db[call.table_name])
                     ELSE {db[call.table_name]}) :
           db' = [db EXCEPT ![call.table_name] = after]
    /\ call' = [call EXCEPT !.outcome = "raised"]
    /\ error' = "SQLAlchemyError"
    /\ UNCHANGED <<frames, files, tables, warnings, pc, trace>>

\* load_fact_using_copy: the call starts (line 57)
LoadFactUsingCopy ==
    /\ pc = "loader"
    /\ call.outcome \in {"none", "returned"}
    /\ \E table_name \in DOMAIN db, n \in 0..MaxDfRows :
        /\ table_name \notin Range(trace)
        /\ call' = [op |-> "copy_create", outcome |-> "running",
                    table_name |-> table_name,
                    df |-> [i \in 1..n |-> [src |-> "df", n |-> i]],
                    chunk_size |-> 0, start_index |-> 0, copy_failed |-> FALSE,
                    before |-> db,
                    loaded |-> call.loaded \cup
                                   {<<table_name, [i \in 1..n |-> [src |-> "df", n |-> i]]>>}]
        /\ trace' = Append(trace, table_name)
    /\ UNCHANGED <<frames, files, tables, warnings, pc, error, db>>

\* line 64: df.head(0).to_sql(..., if_exists='replace') creates the empty table
CopyCreateTable ==
    /\ pc = "loader"
    /\ call.op = "copy_create"
    /\ call.outcome = "running"
    /\ db' = [db EXCEPT ![call.table_name] = ToSqlReplace(@, <<>>)]
    /\ call' = [call EXCEPT !.op = "copy_rows"]
    /\ UNCHANGED <<frames, files, tables, warnings, pc, error, trace>>

\* line 64 raises, outside any try
CopyCreateTableRaises ==
    /\ pc = "loader"
    /\ call.op = "copy_create"
    /\ call.outcome = "running"
    /\ \E after \in AfterFailedReplace(db[call.table_name]) :
           db' = [db EXCEPT ![call.table_name] = after]
    /\ call' = [call EXCEPT !.outcome = "raised"]
    /\ error' = "SQLAlchemyError"
    /\ UNCHANGED <<frames, files, tables, warnings, pc, trace>>

\* lines 67-78: the CSV is written, COPY streams it and the commit succeeds
CopyRows ==
    /\ pc = "loader"
    /\ call.op = "copy_rows"
    /\ call.outcome = "running"
    /\ db' = [db EXCEPT ![call.table_name] = Holding(@.rows \o call.df)]
    /\ call' = [call EXCEPT !.outcome = "returned"]
    /\ UNCHANGED <<frames, files, tables, warnings, pc, error, trace>>

\* lines 79-85: copy_expert or commit raises; the except clause prints the
\* error and rolls the COPY back, and the method returns normally
CopyRowsFails ==
    /\ pc = "loader"
    /\ call.op = "copy_rows"
    /\ call.outcome = "running"
    /\ call' = [call EXCEPT !.outcome = "returned", !.copy_failed = TRUE]
    /\ UNCHANGED <<frames, files, tables, warnings, pc, error, trace, db>>

\* line 72: raw_connection() raises, before the try
CopyConnectRaises ==
    /\ pc = "loader"
    /\ call.op = "copy_rows"
    /\ call.outcome = "running"
    /\ call' = [call EXCEPT !.outcome = "raised", !.copy_failed = TRUE]
    /\ error' = "OperationalError"
    /\ UNCHANGED <<frames, files, tables, warnings, pc, trace, db>>

DestinationTables == {"dim_listing", "fact_daily_revenue"}

\* a caller holding a DataLoader, over any prior contents of the destination
InitLoader ==
    /\ db \in [DestinationTables ->
                  {Absent} \cup {Holding([i \in 1..n |-> [src |-> "old", n |-> i]]) :
                                     n \in 0..MaxDfRows}]
    /\ call = NoCall
    /\ pc = "loader"
    /\ error = ""
    /\ trace = <<>>
    /\ files = <<>>
    /\ calendar_df = <<>>
    /\ listings_df = <<>>
    /\ listings_details_df = <<>>
    /\ neighbourhoods_df = <<>>
    /\ dim_listing = <<>>
    /\ dim_location = <<>>
    /\ dim_date = <<>>
    /\ fact_daily_revenue = <<>>
    /\ fact_merged = <<>>
    /\ warnings = <<>>

NextLoader ==
    \/ LoadDimension
    \/ ToSql
    \/ ToSqlRaises
    \/ LoadFactUsingCopy
    \/ CopyCreateTable
    \/ CopyCreateTableRaises
    \/ CopyRows
    \/ CopyRowsFails
    \/ CopyConnectRaises

SpecLoader == InitLoader /\ [][NextLoader]_vars

-----------------------------------------------------------------------------
(* DataSanityChecker (data_sanity_checker.py), on the frames and tables main
   passes it: listings_df and calendar_df as transform left them. *)

\* check_dim_listing_ids
CheckDimListingIds(rawListings, dimListing) ==
    LET source_ids == {rawListings[i].listing_id : i \in DOMAIN rawListings}
        transformed_ids == {dimListing[i].ListingID_BK : i \in DOMAIN dimListing}
    IN  IF source_ids \ transformed_ids = {} THEN "passed" ELSE "AssertionError"

\* check_dim_location_latlong
CheckDimLocationLatlong(rawListings, dimLocation) ==
    LET raw_pairs == {<<rawListings[i].latitude, rawListings[i].longitude>> :
                          i \in DOMAIN rawListings}
        dim_pairs == {<<dimLocation[i].latitude, dimLocation[i].longitude>> :
                          i \in DOMAIN dimLocation}
    IN  IF raw_pairs \ dim_pairs = {} THEN "passed" ELSE "AssertionError"

\* the columns of FACT_DAILY_REVENUE as transform returns it
FactColumns == {"daily_price", "occupied_flag", "price", "listing_id", "location_id",
                "date_id"}

\* the columns of pd.merge(left, right, on=on, suffixes=(ls, rs)): a column the
\* two sides share, other than the key, gets the side's suffix
MergeColumns(left, right, on, ls, rs) ==
    {IF c \in right \ on THEN c \o ls ELSE c : c \in left}
        \cup {IF c \in left \ on THEN c \o rs ELSE c : c \in right}

\* check_fact_listing_latlong: fact_check is the fact table merged with the
\* mapping (listing_id, ListingID_BK, latitude, longitude); the comparison reads
\* latitude, latitude_raw, longitude and longitude_raw from it
CheckFactListingLatlong(factColumns) ==
    LET fact_check == MergeColumns(factColumns,
                          {"listing_id", "ListingID_BK", "latitude", "longitude"},
                          {"listing_id"}, "", "_raw")
    IN  IF {"latitude", "latitude_raw", "longitude", "longitude_raw"} \subseteq fact_check
        THEN "passed"
        ELSE "KeyError"

\* check_fact_row_count
CheckFactRowCount(rawCalendar, fact) ==
    IF Len(rawCalendar) = Len(fact) THEN "passed" ELSE "AssertionError"

\* run_all_checks: the first check that raises ends it
RunAllChecks(rawListings, rawCalendar, dimListing, dimLocation, fact) ==
    IF CheckDimListingIds(rawListings, dimListing) # "passed"
    THEN CheckDimListingIds(rawListings, dimListing)
    ELSE IF CheckDimLocationLatlong(rawListings, dimLocation) # "passed"
    THEN CheckDimLocationLatlong(rawListings, dimLocation)
    ELSE IF CheckFactListingLatlong(FactColumns) # "passed"
    THEN CheckFactListingLatlong(FactColumns)
    ELSE CheckFactRowCount(rawCalendar, fact)

-----------------------------------------------------------------------------
(* main (main.py:33-50): transform, run_all_checks, the four loads, the report.
   Nothing in main catches an exception: the statement that raises is the last
   one main executes. *)

MainChunkSize == 50000

\* main after checker.run_all_checks() ran with this result
PcAfterChecksIgnoringFailure(result) == "load_dim_listing"

PcAfterChecks(result) == IF result = "passed" THEN "load_dim_listing" ELSE "failed"

MainRunAllChecks ==
    LET result == RunAllChecks(listings_df, calendar_df, dim_listing, dim_location,
                               fact_daily_revenue)
    IN  /\ pc' = PcAfterChecks(result)
        /\ error' = IF result = "passed" THEN "" ELSE result
        /\ trace' = IF result = "passed"
                    THEN trace \o <<"run_all_checks", "checks passed">>
                    ELSE Append(trace, "run_all_checks")
        /\ UNCHANGED <<frames, files, tables, warnings, db, call>>

\* the table after the first k to_sql calls of _load_in_chunks
RECURSIVE AfterWrites(_, _, _, _, _)
AfterWrites(tbl, df, chunk_size, start_index, k) ==
    IF k = 0 \/ ChunksDone(df, start_index) THEN tbl
    ELSE AfterWrites(ChunkWrite(tbl, df, chunk_size, start_index), df, chunk_size,
                     NextStartIndex(df, chunk_size, start_index), k - 1)

\* loader.load_dimension(df, table_name, chunk_size=50000): all its to_sql calls
\* succeed (k = total), or the one after the first k raises
MainLoadDimension(df, table_name, next) ==
    LET total == TotalChunks(Len(df), MainChunkSize)
    IN  \E k \in 0..total :
            /\ trace' = Append(trace, "load_dimension " \o table_name)
            /\ IF k = total
               THEN /\ db' = [db EXCEPT ![table_name] =
                                  AfterWrites(@, df, MainChunkSize, 0, k)]
                    /\ pc' = next
                    /\ error' = ""
               ELSE /\ \E after \in (IF k = 0 THEN AfterFailedReplace(db[table_name])
                                     ELSE {AfterWrites(db[table_name], df,
                                                       MainChunkSize, 0, k)}) :
                           db' = [db EXCEPT ![table_name] = after]
                    /\ pc' = "failed"
                    /\ error' = "SQLAlchemyError"
            /\ UNCHANGED <<frames, files, tables, warnings, call>>

\* loader.load_fact_using_copy(fact_daily_revenue, "fact_daily_revenue")
MainLoadFactUsingCopy ==
    /\ trace' = Append(trace, "load_fact_using_copy fact_daily_revenue")
    /\ \E outcome \in {"create raises", "connect raises", "copy fails", "copied"} :
        CASE outcome = "create raises" ->
                 /\ \E after \in AfterFailedReplace(db["fact_daily_revenue"]) :
                        db' = [db EXCEPT !["fact_daily_revenue"] = after]
                 /\ pc' = "failed"
                 /\ error' = "SQLAlchemyError"
          [] outcome = "connect raises" ->
                 /\ db' = [db EXCEPT !["fact_daily_revenue"] = ToSqlReplace(@, <<>>)]
                 /\ pc' = "failed"
                 /\ error' = "OperationalError"
          [] outcome = "copy fails" ->
                 /\ db' = [db EXCEPT !["fact_daily_revenue"] = ToSqlReplace(@, <<>>)]
                 /\ pc' = "report"
                 /\ error' = ""
          [] outcome = "copied" ->
                 /\ db' = [db EXCEPT !["fact_daily_revenue"] = Holding(fact_daily_revenue)]
                 /\ pc' = "report"
                 /\ error' = ""
    /\ UNCHANGED <<frames, files, tables, warnings, call>>

\* print("[ETL] Process completed successfully!")
MainReport ==
    /\ pc' = "done"
    /\ trace' = Append(trace, "completed successfully")
    /\ UNCHANGED <<frames, files, tables, warnings, error, db, call>>

\* the next statement of main
MainStep ==
    /\ pc \in {"transform", "check", "load_dim_listing", "load_dim_location",
               "load_dim_date", "load_fact", "report"}
    /\ CASE pc = "transform" -> Transform
         [] pc = "check" -> MainRunAllChecks
         [] pc = "load_dim_listing" ->
                MainLoadDimension(dim_listing, "dim_listing", "load_dim_location")
         [] pc = "load_dim_location" ->
                MainLoadDimension(dim_location, "dim_location", "load_dim_date")
         [] pc = "load_dim_date" ->
                MainLoadDimension(dim_date, "dim_date", "load_fact")
         [] pc = "load_fact" -> MainLoadFactUsingCopy
         [] pc = "report" -> MainReport

MainTables == {"dim_listing", "dim_location", "dim_date", "fact_daily_revenue"}

\* main at line 33, its five names bound: any calendar, well-formed or not, and
\* a database that is empty or holds the tables of an earlier run
InitMain ==
    /\ \E cal \in SeqsUpTo({CalendarRow(id, d, a, p) :
                               id \in {"A123", "Z999"},
                               d \in {"2021-01-01", "not a date"},
                               a \in {"t"}, p \in {"$120.50", "N/A"}},
                           MaxCalendarRows),
          lst \in SeqsUpTo({ListingRow(id, "Loft", <<407, -740>>, " SoHo ") :
                               id \in ListingIds}, MaxListingRows) :
           AtTransform(cal, lst, <<DetailRow("A123", "sunny")>>,
                       <<NeighbourhoodRow("SoHo", "Manhattan")>>)
    /\ db \in {[t \in MainTables |-> Absent],
               [t \in MainTables |-> Holding(<<[src |-> "old", n |-> 1]>>)]}
    /\ call = NoCall

SpecMain == InitMain /\ [][MainStep]_vars

-----------------------------------------------------------------------------
(* Properties of the tables transform returns.  pc = "check" is the state in
   which transform has returned and main holds its four tables. *)

Returned == pc = "check"

SourceListingIds == {files.listings[i].id : i \in DOMAIN files.listings}

\* the first row of the listings source with this id
FirstListing(id) ==
    files.listings[CHOOSE i \in DOMAIN files.listings :
        /\ files.listings[i].id = id
        /\ \A j \in 1..(i - 1) : files.listings[j].id # id]

LatLong(r) == <<r.latitude, r.longitude>>

\* number of fact rows a calendar row turns into: a left merge emits a row once
\* per matching listings row, and once if there is none
FactRowsOf(k) ==
    LET n == Cardinality({j \in DOMAIN files.listings :
                             files.listings[j].id = files.calendar[k].listing_id})
    IN  IF n = 0 THEN 1 ELSE n

RECURSIVE FactRowsUpTo(_)
FactRowsUpTo(k) == IF k = 0 THEN 0 ELSE FactRowsUpTo(k - 1) + FactRowsOf(k)

\* the calendar row the i-th fact row came from
CalendarRowOf(i) ==
    CHOOSE k \in DOMAIN files.calendar : FactRowsUpTo(k - 1) < i /\ i <= FactRowsUpTo(k)

\* C1: the fact table has exactly as many rows as the calendar source.
C1_FactRowCountIsCalendarRowCount ==
    Returned => Len(fact_daily_revenue) = Len(files.calendar)

\* C2: dim_listing pairs the distinct listing ids of the source one-to-one with
\* the surrogate keys 1..N, in the order in which the ids first appear.
C2_DimListingIsBijection ==
    Returned =>
        /\ {r.ListingID_BK : r \in Range(dim_listing)} = SourceListingIds
        /\ Len(dim_listing) = Cardinality(SourceListingIds)
        /\ {r.listing_id_surrogate : r \in Range(dim_listing)}
               = 1..Cardinality(SourceListingIds)
        /\ \A a, b \in Range(dim_listing) :
               a.listing_id_surrogate < b.listing_id_surrogate
                   <=> \E i \in DOMAIN files.listings :
                           /\ files.listings[i].id = a.ListingID_BK
                           /\ \A j \in 1..i : files.listings[j].id # b.ListingID_BK

\* C2 witness: two distinct listing ids, one of them with two detail rows
C2_Witness ==
    /\ Returned
    /\ Len(dim_listing) = 2
    /\ \E i, j \in DOMAIN files.listings_details :
           /\ i # j
           /\ files.listings_details[i].id = files.listings_details[j].id
           /\ files.listings_details[i].id \in SourceListingIds

\* C3: every (latitude, longitude) pair of the listings source is on exactly one
\* row of dim_location.
C3_OneLocationRowPerCoordinatePair ==
    Returned =>
        \A i \in DOMAIN files.listings :
            Cardinality({k \in DOMAIN dim_location :
                LatLong(dim_location[k]) = LatLong(files.listings[i])}) = 1

\* C4: a fact row with a resolved listing key points to a location whose
\* coordinates are those of the first source row of that listing.
C4_FactLocationRoundTrip ==
    Returned =>
        \A i \in DOMAIN fact_daily_revenue :
            LET f == fact_daily_revenue[i]
            IN  f.listing_id # None =>
                    /\ f.location_id # None
                    /\ \E k \in DOMAIN dim_location :
                           dim_location[k].location_id = f.location_id[1]
                    /\ \A l \in Range(dim_listing), d \in Range(dim_location) :
                           /\ l.listing_id_surrogate = f.listing_id[1]
                           /\ d.location_id = f.location_id[1]
                           => LatLong(d) = LatLong(FirstListing(l.ListingID_BK))

\* C4 witness: a resolved fact row whose location is not the first row of a
\* dim_location that holds some coordinate pair more than once
C4_Witness ==
    /\ Returned
    /\ \E i \in DOMAIN fact_daily_revenue :
           /\ fact_daily_revenue[i].listing_id # None
           /\ fact_daily_revenue[i].location_id # None
           /\ fact_daily_revenue[i].location_id[1] > 1
    /\ Len(dim_location) >
           Cardinality({LatLong(files.listings[i]) : i \in DOMAIN files.listings})

SourceDates == {ToDatetime(files.calendar[i].date) : i \in DOMAIN files.calendar}

\* C5: dim_date has one row per distinct calendar date, keyed 1..D in ascending
\* date order, and every fact row carries the key of its calendar row's date.
C5_DateKeysFollowDates ==
    Returned =>
        /\ {r.full_date : r \in Range(dim_date)} = SourceDates
        /\ Len(dim_date) = Cardinality(SourceDates)
        /\ {r.date_id : r \in Range(dim_date)} = 1..Cardinality(SourceDates)
        /\ \A a, b \in Range(dim_date) :
               DateOrd(a.full_date) < DateOrd(b.full_date) => a.date_id < b.date_id
        /\ \A i \in DOMAIN fact_daily_revenue :
               /\ fact_daily_revenue[i].date_id # None
               /\ \E r \in Range(dim_date) :
                      /\ r.date_id = fact_daily_revenue[i].date_id[1]
                      /\ r.full_date = ToDatetime(files.calendar[CalendarRowOf(i)].date)

\* C5 witness: the calendar lists a later date before an earlier one
C5_Witness ==
    /\ Returned
    /\ Len(dim_date) = 2
    /\ Len(fact_daily_revenue) >= 2
    /\ fact_daily_revenue[1].date_id = Some(2)

\* C10: a calendar row of a listing the listings source does not have still
\* gives a fact row, with null listing key, location key and default price, and
\* a ReferentialGapWarning is recorded for it.
C10_UnknownListingKeptNullAndWarned ==
    Returned =>
        \A k \in DOMAIN files.calendar :
            files.calendar[k].listing_id \notin SourceListingIds =>
                /\ \E i \in DOMAIN fact_daily_revenue :
                       /\ CalendarRowOf(i) = k
                       /\ fact_daily_revenue[i].listing_id = None
                       /\ fact_daily_revenue[i].location_id = None
                       /\ fact_daily_revenue[i].price = None
                /\ \E w \in Range(warnings) :
                       w = [kind |-> "ReferentialGapWarning", calendar_row |-> k]

-----------------------------------------------------------------------------
(* Properties of a run of main and of the Loader *)

IsLoad(op) ==
    op \in {"load_dimension dim_listing", "load_dimension dim_location",
            "load_dimension dim_date", "load_fact_using_copy fact_daily_revenue"}

\* C6: main starts a load only after run_all_checks has returned without
\* raising, and a run that transform or a check ended has started no load and
\* left the database as it was.
C6_LoadsOnlyBehindTheGate ==
    /\ \A i \in DOMAIN trace :
           IsLoad(trace[i]) =>
               \E j \in 1..(i - 1) : trace[j] = "checks passed"
    /\ (\A i \in DOMAIN trace : trace[i] # "checks passed") =>
           \A t \in MainTables : db[t] \in {Absent, Holding(<<[src |-> "old", n |-> 1]>>)}
    /\ (pc = "failed" /\ error \in {"ValueError: date", "ValueError: price",
                                    "AssertionError", "KeyError"}) =>
           \A i \in DOMAIN trace : ~IsLoad(trace[i])

\* C6 witness: transform returned, a check of run_all_checks raised, and main
\* ended there without a load
C6_Witness ==
    /\ pc = "failed"
    /\ trace = <<"transform", "run_all_checks">>
    /\ error \in {"AssertionError", "KeyError"}
    /\ Len(fact_daily_revenue) > 0
    /\ \A t \in MainTables : db[t] = Holding(<<[src |-> "old", n |-> 1]>>)

\* C7: when load_dimension / load_fact returns, the destination table holds
\* exactly the rows of df.
C7_LoadInChunksReplaces ==
    (call.op = "load_in_chunks" /\ call.outcome = "returned") =>
        db[call.table_name].rows = call.df

\* C8: after a load that raised, no destination table holds only some of the
\* rows of the table that was being loaded into it.
C8_NoPartlyLoadedTable ==
    call.outcome = "raised" =>
        \A l \in call.loaded :
            ~ /\ db[l[1]].exists
              /\ Len(db[l[1]].rows) > 0
              /\ Len(db[l[1]].rows) < Len(l[2])
              /\ db[l[1]].rows = SubSeq(l[2], 1, Len(db[l[1]].rows))

\* C9: when load_fact_using_copy returns, the destination table holds all rows
\* of df if the COPY was committed, and what it held before the call if the COPY
\* failed and was rolled back.
C9_CopyIsAllOrNothing ==
    (call.op = "copy_rows" /\ call.outcome = "returned") =>
        IF call.copy_failed
        THEN db[call.table_name].rows = call.before[call.table_name].rows
        ELSE db[call.table_name].rows = call.df

-----------------------------------------------------------------------------
(* The two-day scenario: listing A123 on 2021-01-01 and 2021-01-02 *)

ScenarioNeighbourhoods == {"SoHo", "Harlem", "Chelsea"}

\* a mapping that names no neighbourhood twice
MappingsWithoutRepeats ==
    {nb \in SeqsUpTo({NeighbourhoodRow(n, "Manhattan") : n \in ScenarioNeighbourhoods},
                     MaxNeighbourhoodRows) :
         \A i, j \in DOMAIN nb : nb[i].neighbourhood = nb[j].neighbourhood => i = j}

\* transform on the scenario's calendar and its one listings row (40.7, -74.0,
\* price "$110"); what the scenario leaves open (the listing's name and
\* neighbourhood, its details, the mapping) takes any value
InitScenario ==
    \E nm \in {"Loft", "Flat"}, n \in RawNeighbourhoods,
       det \in SeqsUpTo({DetailRow("A123", "sunny"), DetailRow("A123", "quiet"),
                         DetailRow("B456", "sunny")}, MaxDetailRows),
       nb \in MappingsWithoutRepeats :
        AtTransform(<<CalendarRow("A123", "2021-01-01", "t", "$100.00"),
                      CalendarRow("A123", "2021-01-02", "f", "$120.50")>>,
                    <<ListingRow("A123", nm, <<407, -740>>, n)>>, det, nb)
        /\ NoDatabase

SpecScenario == InitScenario /\ [][Transform]_vars

\* the fact row the scenario expects: prices in cents
ScenarioFactRow(r, date_id, daily_price, occupied_flag) ==
    /\ r.listing_id = Some(1)
    /\ r.date_id = Some(date_id)
    /\ r.daily_price = daily_price
    /\ r.occupied_flag = occupied_flag
    /\ "default_price" \in DOMAIN r
    /\ r.default_price = Some(11000)

\* C11: in the two-day scenario transform returns dim_listing with one row
\* (surrogate 1), dim_location with one row (location_id 1), dim_date with
\* 2021-01-01 as date_id 1 and 2021-01-02 as date_id 2, and exactly two fact
\* rows: {listing 1, date 1, daily_price 100.00, default_price 110, occupied 0}
\* and {listing 1, date 2, daily_price 120.50, default_price 110, occupied 1}.
C11_ScenarioTables ==
    Returned =>
        /\ Len(dim_listing) = 1
        /\ dim_listing[1].listing_id_surrogate = 1
        /\ dim_listing[1].ListingID_BK = "A123"
        /\ Len(dim_location) = 1
        /\ dim_location[1].location_id = 1
        /\ LatLong(dim_location[1]) = <<407, -740>>
        /\ Len(dim_date) = 2
        /\ dim_date[1].date_id = 1
        /\ dim_date[1].full_date = [year |-> 2021, month |-> 1, day |-> 1]
        /\ dim_date[2].date_id = 2
        /\ dim_date[2].full_date = [year |-> 2021, month |-> 1, day |-> 2]
        /\ Len(fact_daily_revenue) = 2
        /\ ScenarioFactRow(fact_daily_revenue[1], 1, 10000, 0)
        /\ ScenarioFactRow(fact_daily_revenue[2], 2, 12050, 1)

-----------------------------------------------------------------------------
(* The caller's frames after a call of transform *)

\* two tables with the same rows: the same column names on every row, and then
\* the same cell values
SameTable(a, b) ==
    /\ Len(a) = Len(b)
    /\ \A i \in DOMAIN a : DOMAIN a[i] = DOMAIN b[i]
    /\ a = b

\* C12: after a call of transform, returned or raised, the calendar, listings,
\* listing-details and neighbourhoods tables the caller passed have the columns
\* and cell values the extractor produced.
C12_TransformLeavesInputsAlone ==
    pc \in {"check", "failed"} =>
        /\ SameTable(calendar_df, files.calendar)
        /\ SameTable(listings_df, files.listings)
        /\ SameTable(listings_details_df, files.listings_details)
        /\ SameTable(neighbourhoods_df, files.neighbourhoods)

-----------------------------------------------------------------------------
(* A whole run of main (main.py:29-50), the extraction included *)

\* DataExtractor.extract: the tuple it returns (data_extractor.py:35)
Extract(paths) ==
    <<paths.calendar, paths.listings, paths.listings_details, paths.neighbourhoods>>

\* the names main.py:31 unpacks that tuple into
MainUnpackTargets ==
    <<"calendar_df", "listings_df", "listings_details_df", "neighbourhoods_df",
      "geojson_gdf">>

\* main.py:30-31: a tuple of another length than the target list is a ValueError
\* and binds nothing
MainExtract ==
    LET returned == Extract(files)
    IN  /\ trace' = Append(trace, "extract")
        /\ IF Len(returned) = Len(MainUnpackTargets)
           THEN /\ calendar_df' = returned[1]
                /\ listings_df' = returned[2]
                /\ listings_details_df' = returned[3]
                /\ neighbourhoods_df' = returned[4]
                /\ pc' = "transform"
                /\ error' = ""
           ELSE /\ pc' = "failed"
                /\ error' = "ValueError: unpack"
                /\ UNCHANGED frames
        /\ UNCHANGED <<files, tables, warnings, db, call>>

\* the next statement of main, from line 30 on
RunStep == IF pc = "extract" THEN MainExtract ELSE MainStep

\* main before line 30: the CSV sources hold any calendar, well-formed or not,
\* and the database is empty or holds the tables of an earlier run
InitRun ==
    /\ \E cal \in SeqsUpTo({CalendarRow(id, d, a, p) :
                               id \in {"A123", "Z999"},
                               d \in {"2021-01-01", "not a date"},
                               a \in {"t"}, p \in {"$120.50", "N/A"}},
                           MaxCalendarRows),
          lst \in SeqsUpTo({ListingRow(id, "Loft", <<407, -740>>, " SoHo ") :
                               id \in ListingIds}, MaxListingRows) :
           files = [calendar |-> cal, listings |-> lst,
                    listings_details |-> <<DetailRow("A123", "sunny")>>,
                    neighbourhoods |-> <<NeighbourhoodRow("SoHo", "Manhattan")>>]
    /\ calendar_df = <<>>
    /\ listings_df = <<>>
    /\ listings_details_df = <<>>
    /\ neighbourhoods_df = <<>>
    /\ dim_listing = <<>>
    /\ dim_location = <<>>
    /\ dim_date = <<>>
    /\ fact_daily_revenue = <<>>
    /\ fact_merged = <<>>
    /\ warnings = <<>>
    /\ pc = "extract"
    /\ error = ""
    /\ trace = <<>>
    /\ db \in {[t \in MainTables |-> Absent],
               [t \in MainTables |-> Holding(<<[src |-> "old", n |-> 1]>>)]}
    /\ call = NoCall

SpecRun == InitRun /\ [][RunStep]_vars

\* main runs its statements one after the other until one raises or it returns
SpecRunFair == SpecRun /\ WF_vars(RunStep)

\* every resolved fact row points to a location with the coordinates of a
\* source row of its listing
FactCoordinatesMatchSource(lst, dimListing, dimLocation, fact) ==
    \A i \in DOMAIN fact :
        (fact[i].listing_id # None /\ fact[i].location_id # None) =>
            \E l \in Range(dimListing), d \in Range(dimLocation), s \in Range(lst) :
                /\ l.listing_id_surrogate = fact[i].listing_id[1]
                /\ d.location_id = fact[i].location_id[1]
                /\ s.id = l.ListingID_BK
                /\ LatLong(d) = LatLong(s)

\* sources whose transform output has the four properties the verifier is for
ValidSources ==
    /\ DatesParse(files.calendar)
    /\ PricesParse(files.calendar)
    /\ LET r == TransformResult(files.calendar, files.listings, files.listings_details,
                                files.neighbourhoods)
       IN  /\ SourceListingIds \subseteq {d.ListingID_BK : d \in Range(r.dim_listing)}
           /\ {LatLong(s) : s \in Range(files.listings)}
                  \subseteq {LatLong(d) : d \in Range(r.dim_location)}
           /\ FactCoordinatesMatchSource(files.listings, r.dim_listing, r.dim_location,
                                         r.fact_daily_revenue)
           /\ Len(r.fact_daily_revenue) = Len(files.calendar)

AllLoadsCalled ==
    \A op \in {"load_dimension dim_listing", "load_dimension dim_location",
               "load_dimension dim_date", "load_fact_using_copy fact_daily_revenue"} :
        op \in Range(trace)

\* C13: a run of main on valid sources gets through extract, transform and
\* run_all_checks without a raise and calls all four loads (unless the database
\* fails one of them).
C13_ValidRunReachesTheLoads ==
    (pc = "extract" /\ ValidSources)
        ~> (AllLoadsCalled \/ error \in {"SQLAlchemyError", "OperationalError"})

-----------------------------------------------------------------------------
(* The success report of main and the COPY of load_fact_using_copy *)

\* the table of the transform that main loads into this destination table
ProducedTable(t) ==
    CASE t = "dim_listing" -> dim_listing
      [] t = "dim_location" -> dim_location
      [] t = "dim_date" -> dim_date
      [] t = "fact_daily_revenue" -> fact_daily_revenue

\* C14: when main has printed its success message, each of the four destination
\* tables holds the rows of the table the transform produced for it; and a COPY
\* that failed inside load_fact_using_copy ends the call with an exception, not
\* with a normal return.
C14_SuccessOnlyForCompleteLoad ==
    /\ pc = "done" =>
           \A t \in MainTables :
               \A i \in DOMAIN ProducedTable(t) :
                   \E j \in DOMAIN db[t].rows : db[t].rows[j] = ProducedTable(t)[i]
    /\ (call.op = "copy_rows" /\ call.copy_failed) => call.outcome = "raised"

====
